---- MODULE Spec2Model ----
(***************************************************************************)
(* Model of the movies table client (dynamodb_handler.py) and of the       *)
(* interactive controller (main.py).                                       *)
(*                                                                         *)
(* The DynamoDB table is the environment: its content is the variable      *)
(* store, and the way it answers one handler call (scan order, page        *)
(* boundaries, injected service faults) is drawn afresh for every call and *)
(* recorded in env.  Every handler method is an operator from the store    *)
(* and the environment's answers to the method's outcome: the new store,   *)
(* the returned value, the printed messages, the store calls issued and    *)
(* the exception that escaped, if any.                                     *)
(***************************************************************************)
EXTENDS Integers, Sequences, FiniteSets, TLC

(***************************************************************************)
(* Bounds                                                                  *)
(***************************************************************************)
MaxRecords == 3        \* records in the table at start
MaxPages == 2          \* pages one scan is served in

Years == {0, 1, 2}
Titles == {"A", "B"}

\* The keys a record of the table may have: three records share the title
\* "A" (one of them of year 0), one has another title.
Keys == {<<0, "A">>, <<1, "A">>, <<2, "A">>, <<1, "B">>}

(***************************************************************************)
(* Values                                                                  *)
(***************************************************************************)
\* A float with at most one fractional digit is kept as its number of tenths.
Floats == {75, 90}

\* Decimal(str(x)): str of a float always carries a fractional part ("9.0"),
\* so the decimal has exponent -1 and the tenths as coefficient.
DecimalOfFloat(x) == [coef |-> x, exp |-> -1]

Decimals == {DecimalOfFloat(x) : x \in Floats}

KeyOf(item) == <<item.year, item.title>>

\* A record: the key and the nested map info, which holds the rating and
\* what else the record carries (here its plot).
Plots == {"p"}

Items == {item \in [year : Years, title : Titles, info : [rating : Decimals, plot : Plots]] :
            KeyOf(item) \in Keys}

\* dict.get(name): None (here -1, which is no year) when the attribute is
\* missing.
None == -1
Get(item, name) == IF name \in DOMAIN item THEN item[name] ELSE None

\* Python truth value of item.get('year'): None and 0 are both false.
Truthy(v) == v # None /\ v # 0

(***************************************************************************)
(* Exceptions.  ClientError carries the service's error code; a failure to *)
(* reach the service at all is a botocore error that is no ClientError.    *)
(***************************************************************************)
NoExc == "none"
ConditionalCheckFailed == "ConditionalCheckFailedException"
ValidationException == "ValidationException"
Throttled == "ProvisionedThroughputExceededException"
EndpointConnectionError == "EndpointConnectionError"

ClientErrorCodes == {ConditionalCheckFailed, ValidationException, Throttled}
IsClientError(e) == e \in ClientErrorCodes

\* The faults the service may answer any call with.
Faults == {Throttled, EndpointConnectionError}

(***************************************************************************)
(* The table (environment)                                                 *)
(***************************************************************************)
KeysUnique(S) == \A a, b \in S : KeyOf(a) = KeyOf(b) => a = b

Tables == {S \in SUBSET Items : Cardinality(S) <= MaxRecords /\ KeysUnique(S)}

Present(st, key) == \E item \in st : KeyOf(item) = key
ItemAt(st, key) == CHOOSE item \in st : KeyOf(item) = key

RECURSIVE Sum(_)
Sum(s) == IF s = <<>> THEN 0 ELSE Head(s) + Sum(Tail(s))

RECURSIVE Reverse(_)
Reverse(s) == IF s = <<>> THEN <<>> ELSE Append(Reverse(Tail(s)), Head(s))

\* The table's items by partition key, then by sort key.
TitleRank(t) == IF t = "A" THEN 1 ELSE 2
Rank(item) == 2 * item.year + TitleRank(item.title)

RECURSIVE Ascending(_)
Ascending(S) ==
    IF S = {} THEN <<>>
    ELSE LET first == CHOOSE a \in S : \A b \in S : Rank(a) <= Rank(b)
         IN <<first>> \o Ascending(S \ {first})

\* The order in which a scan walks the table: the client does not control
\* it; the model lets it be the key order or its reverse.
ScanOrder(S, reverse) == IF reverse THEN Reverse(Ascending(S)) ELSE Ascending(S)

\* The ways to cut n items into 1..MaxPages pages, empty pages included.
PageLens(n) == UNION {{l \in [1..k -> 0..n] : Sum(l) = n} : k \in 1..MaxPages}

NoToken == 0

\* Page p of the walk: the items after the first p-1 pages.
PageOf(order, lens, p) ==
    LET before == Sum(SubSeq(lens, 1, p - 1))
    IN SubSeq(order, before + 1, before + lens[p])

\* scan(FilterExpression?, ExclusiveStartKey?): the page after the token, the
\* filter applied to the page after it was read, and a LastEvaluatedKey (the
\* number of the page just served) unless this was the last page.
\* filter is <<>> for no filter and <<title>> for Attr('title').eq(title).
StoreScan(order, lens, filter, token) ==
    LET p == token + 1
        page == PageOf(order, lens, p)
        Keep(item) == filter = <<>> \/ item.title = filter[1]
    IN [Items |-> SelectSeq(page, Keep),
        LastEvaluatedKey |-> IF p < Len(lens) THEN p ELSE NoToken]

\* update_item(Key, UpdateExpression "set <path> = :r"), no condition
\* expression.  SET on the nested path info.rating changes that element of
\* the map and keeps the others; SET on a top-level attribute replaces or
\* adds the attribute.  A nested path needs its parent map: on a key that is not in
\* the table the service rejects the update (the code expects
\* ConditionalCheckFailedException, DynamoDB answers ValidationException:
\* absentCode is the one the service picks); a top-level path would create
\* the item.  inj is the fault the service answers with, if any.
StoreUpdateItem(st, key, path, value, inj, absentCode) ==
    IF inj # NoExc THEN [store |-> st, exc |-> inj, Attributes |-> <<>>]
    ELSE IF Present(st, key)
    THEN LET old == ItemAt(st, key)
             new == IF path = "info.rating"
                    THEN [old EXCEPT !.info.rating = value]
                    ELSE [a \in DOMAIN old \cup {path} |->
                             IF a = path THEN value ELSE old[a]]
         IN [store |-> (st \ {old}) \cup {new}, exc |-> NoExc,
             Attributes |-> <<[rating |-> value]>>]
    ELSE IF path = "info.rating"
    THEN [store |-> st, exc |-> absentCode, Attributes |-> <<>>]
    ELSE [store |-> st \cup {[year |-> key[1], title |-> key[2],
                              info |-> [rating |-> value]]},
          exc |-> NoExc, Attributes |-> <<[rating |-> value]>>]

\* delete_item(Key, ReturnValues ALL_OLD): the deleted item's content, or
\* nothing when the key was not in the table.
StoreDeleteItem(st, key, inj) ==
    IF inj # NoExc THEN [store |-> st, exc |-> inj, Attributes |-> <<>>]
    ELSE IF Present(st, key)
    THEN [store |-> st \ {ItemAt(st, key)}, exc |-> NoExc,
          Attributes |-> <<ItemAt(st, key)>>]
    ELSE [store |-> st, exc |-> NoExc, Attributes |-> <<>>]

(***************************************************************************)
(* Outcomes of a handler method                                            *)
(***************************************************************************)
\* A store call: the api, and the arguments that api takes.
ScanCall(filter, token) ==
    [api |-> "scan", filter |-> filter, token |-> token, key |-> <<>>, value |-> <<>>]
UpdateCall(key, value) ==
    [api |-> "update_item", filter |-> <<>>, token |-> NoToken, key |-> key,
     value |-> <<value>>]
DeleteCall(key) ==
    [api |-> "delete_item", filter |-> <<>>, token |-> NoToken, key |-> key,
     value |-> <<>>]

\* A printed message: its text, the year it names (-1: none) and the count
\* it names (-1: none).
Msg(m, y, n) == [m |-> m, year |-> y, n |-> n]

\* A returned value: kind is "None", "list" (val the list), "response" (val
\* the Attributes of the store's response) or "raise" (no value: the
\* exception exc escaped the method).
RetNone == [kind |-> "None", val |-> <<>>]
RetList(l) == [kind |-> "list", val |-> l]
RetResponse(attributes) == [kind |-> "response", val |-> attributes]
RetRaise == [kind |-> "raise", val |-> <<>>]

Outcome(st, r, o, c, x) == [store |-> st, ret |-> r, out |-> o, calls |-> c, exc |-> x]

\* ScanLoop with items = response['Items'] in the loop instead of
\* items.extend(...): every page replaces the pages before it.
RECURSIVE ScanLoopReplacing(_, _, _, _, _, _, _, _)
ScanLoopReplacing(order, lens, filter, failAt, failKind, token, items, calls) ==
    LET calls2 == Append(calls, ScanCall(filter, token))
    IN IF failAt = Len(calls2)
       THEN [items |-> items, calls |-> calls2, exc |-> failKind]
       ELSE LET response == StoreScan(order, lens, filter, token)
                items2 == response.Items
            IN IF response.LastEvaluatedKey # NoToken
               THEN ScanLoopReplacing(order, lens, filter, failAt, failKind,
                                      response.LastEvaluatedKey, items2, calls2)
               ELSE [items |-> items2, calls |-> calls2, exc |-> NoExc]

\* The scan loop the three scanning methods share: the first scan, then one
\* scan per LastEvaluatedKey, each extending items.  The failAt-th scan call
\* raises failKind (failAt = 0: none does).
RECURSIVE ScanLoop(_, _, _, _, _, _, _, _)
ScanLoop(order, lens, filter, failAt, failKind, token, items, calls) ==
    LET calls2 == Append(calls, ScanCall(filter, token))
    IN IF failAt = Len(calls2)
       THEN [items |-> items, calls |-> calls2, exc |-> failKind]
       ELSE LET response == StoreScan(order, lens, filter, token)
                items2 == items \o response.Items
            IN IF response.LastEvaluatedKey # NoToken
               THEN ScanLoop(order, lens, filter, failAt, failKind,
                             response.LastEvaluatedKey, items2, calls2)
               ELSE [items |-> items2, calls |-> calls2, exc |-> NoExc]

ScanAll(st, e, filter) ==
    ScanLoop(ScanOrder(st, e.reverse), e.lens, filter, e.scanFailAt, e.scanFailKind,
             NoToken, <<>>, <<>>)

(***************************************************************************)
(* DynamoDBHandler.get_all_records                                         *)
(***************************************************************************)
\* get_all_records returning, on a ClientError, the items of the pages read
\* before it.
get_all_records_partial(st, e) ==
    LET s == ScanAll(st, e, <<>>)
        scanning == <<Msg("Scanning the table for all records...", -1, -1)>>
    IN IF s.exc = NoExc
       THEN Outcome(st, RetList(s.items),
                    Append(scanning, Msg("Found records.", -1, Len(s.items))),
                    s.calls, NoExc)
       ELSE IF IsClientError(s.exc)
       THEN Outcome(st, RetList(s.items), Append(scanning, Msg("An error occurred", -1, -1)),
                    s.calls, NoExc)
       ELSE Outcome(st, RetRaise, scanning, s.calls, s.exc)

get_all_records(st, e) ==
    LET s == ScanAll(st, e, <<>>)
        scanning == <<Msg("Scanning the table for all records...", -1, -1)>>
    IN IF s.exc = NoExc
       THEN Outcome(st, RetList(s.items),
                    Append(scanning, Msg("Found records.", -1, Len(s.items))),
                    s.calls, NoExc)
       ELSE IF IsClientError(s.exc)
       THEN Outcome(st, RetNone, Append(scanning, Msg("An error occurred", -1, -1)),
                    s.calls, NoExc)
       ELSE Outcome(st, RetRaise, scanning, s.calls, s.exc)

(***************************************************************************)
(* DynamoDBHandler.update_movie_rating                                     *)
(***************************************************************************)
\* update_movie_rating with UpdateExpression "set rating = :r": a top-level
\* attribute, which update_item creates together with the item.
update_movie_rating_top_level(st, year, title, new_rating, inj, absentCode) ==
    LET value == DecimalOfFloat(new_rating)
        r == StoreUpdateItem(st, <<year, title>>, "rating", value, inj, absentCode)
        updating == <<Msg("Updating rating", year, new_rating)>>
        issued == <<UpdateCall(<<year, title>>, value)>>
    IN IF r.exc = NoExc
       THEN Outcome(r.store, RetResponse(r.Attributes),
                    Append(updating, Msg("Update successful.", -1, -1)), issued, NoExc)
       ELSE IF IsClientError(r.exc)
       THEN Outcome(r.store, RetNone,
                    Append(updating,
                           IF r.exc = ConditionalCheckFailed
                           THEN Msg("Error: A movie was not found.", year, -1)
                           ELSE Msg("An error occurred while updating", -1, -1)),
                    issued, NoExc)
       ELSE Outcome(r.store, RetRaise, updating, issued, r.exc)

\* update_movie_rating comparing the error code with "ResourceNotFoundException":
\* the not-found branch is never taken.
update_movie_rating_wrong_code(st, year, title, new_rating, inj, absentCode) ==
    LET value == DecimalOfFloat(new_rating)
        r == StoreUpdateItem(st, <<year, title>>, "info.rating", value, inj, absentCode)
        updating == <<Msg("Updating rating", year, new_rating)>>
        issued == <<UpdateCall(<<year, title>>, value)>>
    IN IF r.exc = NoExc
       THEN Outcome(r.store, RetResponse(r.Attributes),
                    Append(updating, Msg("Update successful.", -1, -1)), issued, NoExc)
       ELSE IF IsClientError(r.exc)
       THEN Outcome(r.store, RetNone,
                    Append(updating,
                           IF r.exc = "ResourceNotFoundException"
                           THEN Msg("Error: A movie was not found.", year, -1)
                           ELSE Msg("An error occurred while updating", -1, -1)),
                    issued, NoExc)
       ELSE Outcome(r.store, RetRaise, updating, issued, r.exc)

\* update_movie_rating with ConditionExpression "info.rating <> :r": the
\* table rejects the update of a record that holds the rating already.
update_movie_rating_if_changed(st, year, title, new_rating, inj, absentCode) ==
    LET value == DecimalOfFloat(new_rating)
        held == /\ Present(st, <<year, title>>)
                /\ ItemAt(st, <<year, title>>).info.rating = value
        r == StoreUpdateItem(st, <<year, title>>, "info.rating", value,
                             IF inj = NoExc /\ held THEN ConditionalCheckFailed ELSE inj,
                             absentCode)
        updating == <<Msg("Updating rating", year, new_rating)>>
        issued == <<UpdateCall(<<year, title>>, value)>>
    IN IF r.exc = NoExc
       THEN Outcome(r.store, RetResponse(r.Attributes),
                    Append(updating, Msg("Update successful.", -1, -1)), issued, NoExc)
       ELSE IF IsClientError(r.exc)
       THEN Outcome(r.store, RetNone,
                    Append(updating,
                           IF r.exc = ConditionalCheckFailed
                           THEN Msg("Error: A movie was not found.", year, -1)
                           ELSE Msg("An error occurred while updating", -1, -1)),
                    issued, NoExc)
       ELSE Outcome(r.store, RetRaise, updating, issued, r.exc)

\* update_movie_rating with UpdateExpression "set info = :m", :m the map
\* holding the rating alone: the whole map is replaced.
update_movie_rating_whole_info(st, year, title, new_rating, inj, absentCode) ==
    LET value == DecimalOfFloat(new_rating)
        r == StoreUpdateItem(st, <<year, title>>, "info", [rating |-> value],
                             IF inj = NoExc /\ ~Present(st, <<year, title>>)
                             THEN absentCode ELSE inj,
                             absentCode)
        updating == <<Msg("Updating rating", year, new_rating)>>
        issued == <<UpdateCall(<<year, title>>, value)>>
    IN IF r.exc = NoExc
       THEN Outcome(r.store, RetResponse(r.Attributes),
                    Append(updating, Msg("Update successful.", -1, -1)), issued, NoExc)
       ELSE IF IsClientError(r.exc)
       THEN Outcome(r.store, RetNone,
                    Append(updating,
                           IF r.exc = ConditionalCheckFailed
                           THEN Msg("Error: A movie was not found.", year, -1)
                           ELSE Msg("An error occurred while updating", -1, -1)),
                    issued, NoExc)
       ELSE Outcome(r.store, RetRaise, updating, issued, r.exc)

update_movie_rating(st, year, title, new_rating, inj, absentCode) ==
    LET value == DecimalOfFloat(new_rating)
        r == StoreUpdateItem(st, <<year, title>>, "info.rating", value, inj, absentCode)
        updating == <<Msg("Updating rating", year, new_rating)>>
        issued == <<UpdateCall(<<year, title>>, value)>>
    IN IF r.exc = NoExc
       THEN Outcome(r.store, RetResponse(r.Attributes),
                    Append(updating, Msg("Update successful.", -1, -1)), issued, NoExc)
       ELSE IF IsClientError(r.exc)
       THEN Outcome(r.store, RetNone,
                    Append(updating,
                           IF r.exc = ConditionalCheckFailed
                           THEN Msg("Error: A movie was not found.", year, -1)
                           ELSE Msg("An error occurred while updating", -1, -1)),
                    issued, NoExc)
       ELSE Outcome(r.store, RetRaise, updating, issued, r.exc)

(***************************************************************************)
(* DynamoDBHandler.update_movie_rating_by_title                            *)
(***************************************************************************)
\* UpdateEach leaving the loop at the first update that fails.
RECURSIVE UpdateEachStopping(_, _, _, _, _, _)
UpdateEachStopping(items, i, title, new_rating, e, acc) ==
    IF i > Len(items) THEN acc
    ELSE LET movie_year == Get(items[i], "year")
         IN IF Truthy(movie_year)
            THEN LET u == update_movie_rating(acc.store, movie_year, title, new_rating,
                                              e.updFaults[i], e.absentCode)
                     sofar == Outcome(u.store,
                                      IF u.ret.kind = "response"
                                      THEN RetList(Append(acc.ret.val, u.ret.val))
                                      ELSE acc.ret,
                                      acc.out \o u.out, acc.calls \o u.calls, u.exc)
                 IN IF u.exc # NoExc \/ u.ret.kind # "response" THEN sofar
                    ELSE UpdateEachStopping(items, i + 1, title, new_rating, e, sofar)
            ELSE UpdateEachStopping(items, i + 1, title, new_rating, e,
                            [acc EXCEPT !.out = Append(@, Msg("Warning: 'year' attribute is missing. Skipping", -1, -1))])

\* The for loop over items_to_update, from item i on: acc is the outcome so
\* far, its ret.val the updated_responses.
RECURSIVE UpdateEach(_, _, _, _, _, _)
UpdateEach(items, i, title, new_rating, e, acc) ==
    IF i > Len(items) THEN acc
    ELSE LET movie_year == Get(items[i], "year")
         IN IF Truthy(movie_year)
            THEN LET u == update_movie_rating(acc.store, movie_year, title, new_rating,
                                              e.updFaults[i], e.absentCode)
                     sofar == Outcome(u.store,
                                      IF u.ret.kind = "response"
                                      THEN RetList(Append(acc.ret.val, u.ret.val))
                                      ELSE acc.ret,
                                      acc.out \o u.out, acc.calls \o u.calls, u.exc)
                 IN IF u.exc # NoExc THEN sofar
                    ELSE UpdateEach(items, i + 1, title, new_rating, e, sofar)
            ELSE UpdateEach(items, i + 1, title, new_rating, e,
                            [acc EXCEPT !.out = Append(@, Msg("Warning: 'year' attribute is missing. Skipping", -1, -1))])

\* update_movie_rating_by_title without the "if not items_to_update" return.
update_movie_rating_by_title_unchecked(st, title, new_rating, e) ==
    LET s == ScanAll(st, e, <<title>>)
        attempting == <<Msg("Attempting to update rating", -1, new_rating)>>
    IN IF s.exc # NoExc
       THEN IF IsClientError(s.exc)
            THEN Outcome(st, RetNone,
                         Append(attempting, Msg("An error occurred while searching", -1, -1)),
                         s.calls, NoExc)
            ELSE Outcome(st, RetRaise, attempting, s.calls, s.exc)
       ELSE LET found == Append(attempting, Msg("Found movie(s). Attempting to update...", -1, Len(s.items)))
                u == UpdateEach(s.items, 1, title, new_rating, e,
                                Outcome(st, RetList(<<>>), found, s.calls, NoExc))
            IN IF u.exc # NoExc
               THEN Outcome(u.store, RetRaise, u.out, u.calls, u.exc)
               ELSE IF u.ret.val # <<>>
               THEN Outcome(u.store, u.ret,
                            Append(u.out, Msg("Successfully updated movie(s).", -1, Len(u.ret.val))),
                            u.calls, NoExc)
               ELSE Outcome(u.store, RetNone,
                            Append(u.out, Msg("No updates were successfully applied.", -1, -1)),
                            u.calls, NoExc)

update_movie_rating_by_title(st, title, new_rating, e) ==
    LET s == ScanAll(st, e, <<title>>)
        attempting == <<Msg("Attempting to update rating", -1, new_rating)>>
    IN IF s.exc # NoExc
       THEN IF IsClientError(s.exc)
            THEN Outcome(st, RetNone,
                         Append(attempting, Msg("An error occurred while searching", -1, -1)),
                         s.calls, NoExc)
            ELSE Outcome(st, RetRaise, attempting, s.calls, s.exc)
       ELSE IF s.items = <<>>
       THEN Outcome(st, RetNone,
                    Append(attempting, Msg("No movie found. No updates performed.", -1, -1)),
                    s.calls, NoExc)
       ELSE LET found == Append(attempting, Msg("Found movie(s). Attempting to update...", -1, Len(s.items)))
                u == UpdateEach(s.items, 1, title, new_rating, e,
                                Outcome(st, RetList(<<>>), found, s.calls, NoExc))
            IN IF u.exc # NoExc
               THEN Outcome(u.store, RetRaise, u.out, u.calls, u.exc)
               ELSE IF u.ret.val # <<>>
               THEN Outcome(u.store, u.ret,
                            Append(u.out, Msg("Successfully updated movie(s).", -1, Len(u.ret.val))),
                            u.calls, NoExc)
               ELSE Outcome(u.store, RetNone,
                            Append(u.out, Msg("No updates were successfully applied.", -1, -1)),
                            u.calls, NoExc)

(***************************************************************************)
(* DynamoDBHandler.find_movies_by_title                                    *)
(***************************************************************************)
\* find_movies_by_title scanning without the FilterExpression.
find_movies_by_title_unfiltered(st, title, e) ==
    LET s == ScanAll(st, e, <<>>)
        searching == <<Msg("Searching for movies", -1, -1)>>
    IN IF s.exc = NoExc
       THEN Outcome(st, RetList(s.items),
                    Append(searching,
                           IF s.items = <<>> THEN Msg("No movie found.", -1, -1)
                           ELSE Msg("Found movie(s).", -1, Len(s.items))),
                    s.calls, NoExc)
       ELSE IF IsClientError(s.exc)
       THEN Outcome(st, RetList(<<>>),
                    Append(searching, Msg("An error occurred while searching", -1, -1)),
                    s.calls, NoExc)
       ELSE Outcome(st, RetRaise, searching, s.calls, s.exc)

find_movies_by_title(st, title, e) ==
    LET s == ScanAll(st, e, <<title>>)
        searching == <<Msg("Searching for movies", -1, -1)>>
    IN IF s.exc = NoExc
       THEN Outcome(st, RetList(s.items),
                    Append(searching,
                           IF s.items = <<>> THEN Msg("No movie found.", -1, -1)
                           ELSE Msg("Found movie(s).", -1, Len(s.items))),
                    s.calls, NoExc)
       ELSE IF IsClientError(s.exc)
       THEN Outcome(st, RetList(<<>>),
                    Append(searching, Msg("An error occurred while searching", -1, -1)),
                    s.calls, NoExc)
       ELSE Outcome(st, RetRaise, searching, s.calls, s.exc)

(***************************************************************************)
(* DynamoDBHandler.delete_movie                                            *)
(***************************************************************************)
\* delete_movie taking a response without 'Attributes' for a failure: it
\* prints the error message and returns None.
delete_movie_absent_fails(st, year, title, inj) ==
    LET r == StoreDeleteItem(st, <<year, title>>, inj)
        deleting == <<Msg("Deleting movie", year, -1)>>
        issued == <<DeleteCall(<<year, title>>)>>
    IN IF r.exc = NoExc /\ r.Attributes # <<>>
       THEN Outcome(r.store, RetResponse(r.Attributes),
                    Append(deleting, Msg("Deletion successful.", -1, -1)), issued, NoExc)
       ELSE IF r.exc = NoExc \/ IsClientError(r.exc)
       THEN Outcome(r.store, RetNone,
                    Append(deleting, Msg("An error occurred while deleting", -1, -1)),
                    issued, NoExc)
       ELSE Outcome(r.store, RetRaise, deleting, issued, r.exc)

delete_movie(st, year, title, inj) ==
    LET r == StoreDeleteItem(st, <<year, title>>, inj)
        deleting == <<Msg("Deleting movie", year, -1)>>
        issued == <<DeleteCall(<<year, title>>)>>
    IN IF r.exc = NoExc
       THEN Outcome(r.store, RetResponse(r.Attributes),
                    Append(deleting,
                           IF r.Attributes # <<>> THEN Msg("Deletion successful.", -1, -1)
                           ELSE Msg("Movie not found. Nothing to delete.", year, -1)),
                    issued, NoExc)
       ELSE IF IsClientError(r.exc)
       THEN Outcome(r.store, RetNone,
                    Append(deleting, Msg("An error occurred while deleting", -1, -1)),
                    issued, NoExc)
       ELSE Outcome(r.store, RetRaise, deleting, issued, r.exc)

(***************************************************************************)
(* State                                                                   *)
(***************************************************************************)
VARIABLES
    store,   \* the table's content: a set of items with distinct keys
    pc,      \* where the caller stands
    op,      \* the handler method called last and its arguments
    env,     \* how the table answered that call
    ret,     \* what the method returned
    out,     \* what it printed
    calls,   \* the store calls it issued, in order
    exc,     \* the exception that escaped it
    movie_title,   \* main: the title the user entered for this menu option
    found,   \* main: found_movies
    inp      \* main: the prompt answered last and the text entered

vars == <<store, pc, op, env, ret, out, calls, exc, movie_title, found, inp>>

Op(name, year, title, rating) == [name |-> name, year |-> year, title |-> title, rating |-> rating]
NoOp == Op("none", -1, "", -1)

\* The environment's answers to one call: the scan's order and page cuts and
\* the scan call that fails; the fault each update_item call meets and the
\* error code for a key that is not in the table; the fault a lone
\* update_item or delete_item call meets is updFaults[1].
Env(rev, lens, at, kind, upd, code) ==
    [reverse |-> rev, lens |-> lens, scanFailAt |-> at, scanFailKind |-> kind,
     updFaults |-> upd, absentCode |-> code]

NoEnv == Env(FALSE, <<0>>, 0, NoExc, <<>>, ValidationException)

\* A scan without fault, or with its failAt-th call failing.
ScanEnvs(S) ==
    {Env(x[1], x[2], x[3], x[4], <<>>, ValidationException) :
        x \in {y \in BOOLEAN \X PageLens(Cardinality(S)) \X (0..MaxPages) \X ({NoExc} \cup Faults) :
                  /\ y[3] <= Len(y[2])
                  /\ (y[3] = 0) = (y[4] = NoExc)}}

\* A scan without fault followed by n update_item calls, each with its fault
\* (no call follows one that could not reach the service).
UpdateEnvs(S, n) ==
    {Env(rev, l, 0, NoExc, u, ValidationException) :
        rev \in BOOLEAN, l \in PageLens(Cardinality(S)),
        u \in {v \in [1..n -> {NoExc} \cup Faults] :
                  \A i, j \in 1..n : v[i] = EndpointConnectionError /\ i < j => v[j] = NoExc}}

Matching(S, title) == {item \in S : item.title = title}

\* One update_item call.
KeyEnvs ==
    {Env(FALSE, <<0>>, 0, NoExc, <<inj>>, code) :
        inj \in {NoExc} \cup Faults, code \in {ConditionalCheckFailed, ValidationException}}

\* One delete_item call.
DeleteEnvs ==
    {Env(FALSE, <<0>>, 0, NoExc, <<inj>>, ValidationException) : inj \in {NoExc} \cup Faults}

Apply(o, e, r) ==
    /\ UNCHANGED <<movie_title, found, inp>>
    /\ op' = o
    /\ env' = e
    /\ store' = r.store
    /\ ret' = r.ret
    /\ out' = r.out
    /\ calls' = r.calls
    /\ exc' = r.exc

Idle ==
    /\ op = NoOp
    /\ env = NoEnv
    /\ ret = RetNone
    /\ out = <<>>
    /\ calls = <<>>
    /\ exc = NoExc

(***************************************************************************)
(* The table client called by any caller                                   *)
(***************************************************************************)
NoInput == [prompt |-> "none", text |-> ""]

Init ==
    /\ store \in Tables
    /\ pc = "idle"
    /\ Idle
    /\ movie_title = ""
    /\ found = <<>>
    /\ inp = NoInput

CallGetAll ==
    /\ pc = "idle"
    /\ pc' = "returned"
    /\ \E e \in ScanEnvs(store) :
        Apply(Op("get_all_records", -1, "", -1), e, get_all_records(store, e))

CallFind ==
    /\ pc = "idle"
    /\ pc' = "returned"
    /\ \E title \in Titles, e \in ScanEnvs(store) :
        Apply(Op("find_movies_by_title", -1, title, -1), e,
              find_movies_by_title(store, title, e))

CallUpdate ==
    /\ pc = "idle"
    /\ pc' = "returned"
    /\ \E year \in Years, title \in Titles, rating \in Floats, e \in KeyEnvs :
        Apply(Op("update_movie_rating", year, title, rating), e,
              update_movie_rating(store, year, title, rating, e.updFaults[1], e.absentCode))

CallUpdateByTitle ==
    /\ pc = "idle"
    /\ pc' = "returned"
    /\ \E title \in Titles, rating \in Floats :
       \E e \in {f \in ScanEnvs(store) : f.scanFailAt # 0}
                 \cup UpdateEnvs(store, Cardinality(Matching(store, title))) :
        Apply(Op("update_movie_rating_by_title", -1, title, rating), e,
              update_movie_rating_by_title(store, title, rating, e))

CallDelete ==
    /\ pc = "idle"
    /\ pc' = "returned"
    /\ \E year \in Years, title \in Titles, e \in DeleteEnvs :
        Apply(Op("delete_movie", year, title, -1), e,
              delete_movie(store, year, title, e.updFaults[1]))

\* The caller has taken the result; the next call starts a fresh record.
Return ==
    /\ pc = "returned"
    /\ pc' = "idle"
    /\ Apply(NoOp, NoEnv, Outcome(store, RetNone, <<>>, <<>>, NoExc))

\* Another client of the table deletes a record between two calls.
ExternalDelete ==
    /\ pc \in {"idle", "menu", "upd_title", "upd_rating", "find_title", "del_title",
              "del_confirm", "del_year"}
    /\ \E item \in store : store' = store \ {item}
    /\ UNCHANGED <<pc, op, env, ret, out, calls, exc, movie_title, found, inp>>

Next ==
    \/ CallGetAll
    \/ CallFind
    \/ CallUpdate
    \/ CallUpdateByTitle
    \/ CallDelete
    \/ Return
    \/ ExternalDelete

Spec == Init /\ [][Next]_vars

(***************************************************************************)
(* main.py: what the user types, and how it is parsed                      *)
(***************************************************************************)
MaxRetries == 1        \* invalid ratings entered in a row

Choices == {"1", "2", "3", "4", "5", "6", ""}
TitleInputs == Titles \cup {"a"}
ConfirmInputs == {"y", "Y", "n", "", "yes"}

\* Numbers are typed as sequences of characters.
YearInputs == {<<"0">>, <<"1">>, <<"2">>, <<"7">>, <<" ", "1">>, <<"x">>, <<>>, <<"1", ".", "0">>}
RatingInputs == {<<"9", ".", "0">>, <<"a">>, <<>>}

\* str.lower() on the answers above.
Lower(t) == IF t = "Y" THEN "y" ELSE t

Digits == {"0", "1", "2", "3", "4", "5", "6", "7", "8", "9"}
DigitVal(c) == CHOOSE d \in 0..9 : <<"0", "1", "2", "3", "4", "5", "6", "7", "8", "9">>[d + 1] = c

RECURSIVE StripLeft(_)
StripLeft(s) == IF s # <<>> /\ Head(s) = " " THEN StripLeft(Tail(s)) ELSE s
Strip(s) == Reverse(StripLeft(Reverse(StripLeft(s))))

AllDigits(s) == \A i \in DOMAIN s : s[i] \in Digits

RECURSIVE DigitsValue(_)
DigitsValue(s) ==
    IF s = <<>> THEN 0 ELSE 10 * DigitsValue(SubSeq(s, 1, Len(s) - 1)) + DigitVal(s[Len(s)])

Unsigned(s) == IF s # <<>> /\ Head(s) \in {"+", "-"} THEN Tail(s) ELSE s
Sign(s) == IF s # <<>> /\ Head(s) = "-" THEN -1 ELSE 1

ValueError == [ok |-> FALSE, val |-> 0]
Parsed(v) == [ok |-> TRUE, val |-> v]

\* int(text): surrounding blanks and a sign are allowed, then digits only.
ParseInt(text) ==
    LET t == Strip(text)
        u == Unsigned(t)
    IN IF u = <<>> \/ ~AllDigits(u) THEN ValueError
       ELSE Parsed(Sign(t) * DigitsValue(u))

\* float(text), as a number of tenths: digits with at most one point and at
\* least one digit (the texts entered carry at most one fractional digit).
ParseFloat(text) ==
    LET t == Strip(text)
        u == Unsigned(t)
        points == {i \in DOMAIN u : u[i] = "."}
        cut == IF points = {} THEN Len(u) + 1 ELSE CHOOSE i \in points : TRUE
        whole == SubSeq(u, 1, cut - 1)
        frac == SubSeq(u, cut + 1, Len(u))
    IN IF \/ Cardinality(points) > 1
          \/ ~AllDigits(whole) \/ ~AllDigits(frac)
          \/ whole \o frac = <<>>
       THEN ValueError
       ELSE Parsed(Sign(t) * (10 * DigitsValue(whole)
                              + (IF frac = <<>> THEN 0 ELSE DigitVal(frac[1]))))

(***************************************************************************)
(* main.py: display_records                                                *)
(***************************************************************************)
display_records(records) ==
    IF records = <<>> THEN <<Msg("No records to display.", -1, -1)>>
    ELSE <<Msg("--- Displaying DynamoDB Records ---", -1, Len(records))>>

(***************************************************************************)
(* main.py: main.  pc is the input() the program is blocked in; out and    *)
(* calls hold what the current pass of the menu loop printed and issued.   *)
(***************************************************************************)
Prompts == {"menu", "upd_title", "upd_rating", "find_title", "del_title",
            "del_confirm", "del_year"}

Input(prompt, text) == [prompt |-> prompt, text |-> text]

MenuText == Msg("--- Main Menu ---", -1, -1)

\* except Exception at the top level, then the last print.
Caught == <<Msg("An error occurred in the main application", -1, -1),
            Msg("Application finished.", -1, -1)>>

\* Step without the try / except Exception of main: an exception that
\* escapes the handler ends the program with a traceback.
StepUncaught(pc2, o, r, more, t, f, i) ==
    /\ op' = o
    /\ UNCHANGED env
    /\ store' = r.store
    /\ ret' = r.ret
    /\ calls' = calls \o r.calls
    /\ exc' = r.exc
    /\ movie_title' = t
    /\ found' = f
    /\ inp' = i
    /\ IF r.exc # NoExc
       THEN pc' = "crash" /\ out' = out \o r.out
       ELSE pc' = pc2 /\ out' = out \o r.out \o more

\* One step of main that called the handler method o with outcome r and then
\* printed more; control goes to pc2 unless an exception escaped the method.
Step(pc2, o, r, more, t, f, i) ==
    /\ op' = o
    /\ UNCHANGED env
    /\ store' = r.store
    /\ ret' = r.ret
    /\ calls' = calls \o r.calls
    /\ exc' = r.exc
    /\ movie_title' = t
    /\ found' = f
    /\ inp' = i
    /\ IF r.exc # NoExc
       THEN pc' = "exit" /\ out' = out \o r.out \o Caught
       ELSE pc' = pc2 /\ out' = out \o r.out \o more

\* A step of main that calls no handler method.
Quiet(printed) == Outcome(store, ret, printed, <<>>, NoExc)

InitMain ==
    /\ store \in Tables
    /\ pc = "start"
    /\ Idle
    /\ movie_title = ""
    /\ found = <<>>
    /\ inp = NoInput

\* DynamoDBHandler(...) at the start of main: boto3 may refuse to build the
\* resource, which __init__ reports and raises again.
Construct ==
    /\ pc = "start"
    /\ \E fails \in BOOLEAN :
        Step("menu", NoOp,
             IF fails
             THEN Outcome(store, RetRaise,
                          <<Msg("Starting application...", -1, -1),
                            Msg("Error connecting to DynamoDB", -1, -1)>>,
                          <<>>, EndpointConnectionError)
             ELSE Quiet(<<Msg("Starting application...", -1, -1)>>),
             <<MenuText>>, movie_title, found, inp)

\* The top of the while loop: the menu is printed and the choice awaited.
\* The locals of the pass before are dead here.
LoopHead ==
    /\ pc = "loop"
    /\ pc' = "menu"
    /\ op' = NoOp
    /\ ret' = RetNone
    /\ out' = <<MenuText>>
    /\ calls' = <<>>
    /\ exc' = NoExc
    /\ movie_title' = ""
    /\ found' = <<>>
    /\ inp' = NoInput
    /\ UNCHANGED <<store, env>>

\* MenuChoice leaving the loop on any input that is no option: the else
\* branch breaks like option 5.
MenuChoiceLeaving ==
    /\ pc = "menu"
    /\ \E choice \in Choices :
        LET i == Input("menu", choice)
        IN CASE choice = "1" ->
                  \E e \in ScanEnvs(store) :
                      LET r == get_all_records(store, e)
                      IN Step("loop", Op("get_all_records", -1, "", -1), r,
                              IF r.ret.kind = "list" THEN display_records(r.ret.val) ELSE <<>>,
                              movie_title, found, i)
             [] choice = "2" -> Step("upd_title", NoOp, Quiet(<<>>), <<>>, movie_title, found, i)
             [] choice = "3" -> Step("find_title", NoOp, Quiet(<<>>), <<>>, movie_title, found, i)
             [] choice = "4" -> Step("del_title", NoOp, Quiet(<<>>), <<>>, movie_title, found, i)
             [] OTHER ->
                  Step("exit", NoOp, Quiet(<<Msg("Application finished.", -1, -1)>>), <<>>,
                       movie_title, found, i)

MenuChoice ==
    /\ pc = "menu"
    /\ \E choice \in Choices :
        LET i == Input("menu", choice)
        IN CASE choice = "1" ->
                  \E e \in ScanEnvs(store) :
                      LET r == get_all_records(store, e)
                      IN Step("loop", Op("get_all_records", -1, "", -1), r,
                              IF r.ret.kind = "list" THEN display_records(r.ret.val) ELSE <<>>,
                              movie_title, found, i)
             [] choice = "2" -> Step("upd_title", NoOp, Quiet(<<>>), <<>>, movie_title, found, i)
             [] choice = "3" -> Step("find_title", NoOp, Quiet(<<>>), <<>>, movie_title, found, i)
             [] choice = "4" -> Step("del_title", NoOp, Quiet(<<>>), <<>>, movie_title, found, i)
             [] choice = "5" ->
                  Step("exit", NoOp, Quiet(<<Msg("Application finished.", -1, -1)>>), <<>>,
                       movie_title, found, i)
             [] OTHER ->
                  Step("loop", NoOp, Quiet(<<Msg("Invalid choice.", -1, -1)>>), <<>>,
                       movie_title, found, i)

InputUpdateTitle ==
    /\ pc = "upd_title"
    /\ \E t \in TitleInputs :
        Step("upd_rating", NoOp, Quiet(<<>>), <<>>, t, found, Input("upd_title", t))

Invalids(o) == Cardinality({k \in DOMAIN o : o[k].m = "Invalid rating. Please enter a number."})

\* InputRating without the while loop: an invalid rating ends the option.
InputRatingOnce ==
    /\ pc = "upd_rating"
    /\ \E text \in RatingInputs :
        LET new_rating == ParseFloat(text)
            i == Input("upd_rating", text)
        IN IF ~new_rating.ok
           THEN Step("loop", NoOp,
                     Quiet(<<Msg("Invalid rating. Please enter a number.", -1, -1)>>),
                     <<>>, movie_title, found, i)
           ELSE \E e \in {f \in ScanEnvs(store) : f.scanFailAt # 0}
                         \cup UpdateEnvs(store, Cardinality(Matching(store, movie_title))) :
                    Step("loop", Op("update_movie_rating_by_title", -1, movie_title, new_rating.val),
                         update_movie_rating_by_title(store, movie_title, new_rating.val, e),
                         <<>>, movie_title, found, i)

\* The rating loop: one input(), then either the prompt again or the update.
InputRating ==
    /\ pc = "upd_rating"
    /\ \E text \in RatingInputs :
        LET new_rating == ParseFloat(text)
            i == Input("upd_rating", text)
        IN IF ~new_rating.ok
           THEN /\ Invalids(out) < MaxRetries
                /\ Step("upd_rating", NoOp,
                        Quiet(<<Msg("Invalid rating. Please enter a number.", -1, -1)>>),
                        <<>>, movie_title, found, i)
           ELSE \E e \in {f \in ScanEnvs(store) : f.scanFailAt # 0}
                         \cup UpdateEnvs(store, Cardinality(Matching(store, movie_title))) :
                    Step("loop", Op("update_movie_rating_by_title", -1, movie_title, new_rating.val),
                         update_movie_rating_by_title(store, movie_title, new_rating.val, e),
                         <<>>, movie_title, found, i)

\* InputFindTitle followed by the deletion of the first record found, as in
\* option 4 without its confirmation.
InputFindTitleDeleting ==
    /\ pc = "find_title"
    /\ \E t \in TitleInputs, e \in ScanEnvs(store) :
        LET r == find_movies_by_title(store, t, e)
        IN IF r.ret.val # <<>>
           THEN \E d \in DeleteEnvs :
                   LET x == delete_movie(store, r.ret.val[1].year, t, d.updFaults[1])
                   IN Step("loop", Op("delete_movie", r.ret.val[1].year, t, -1),
                           Outcome(x.store, x.ret, r.out \o x.out, r.calls \o x.calls, x.exc),
                           <<>>, t, r.ret.val, Input("find_title", t))
           ELSE Step("loop", Op("find_movies_by_title", -1, t, -1), r, <<>>,
                     t, r.ret.val, Input("find_title", t))

InputFindTitle ==
    /\ pc = "find_title"
    /\ \E t \in TitleInputs, e \in ScanEnvs(store) :
        LET r == find_movies_by_title(store, t, e)
        IN Step("loop", Op("find_movies_by_title", -1, t, -1), r,
                IF r.ret.val # <<>> THEN display_records(r.ret.val) ELSE <<>>,
                t, r.ret.val, Input("find_title", t))

InputDeleteTitle ==
    /\ pc = "del_title"
    /\ \E t \in TitleInputs, e \in ScanEnvs(store) :
        LET r == find_movies_by_title(store, t, e)
            found_movies == r.ret.val
            o == Op("find_movies_by_title", -1, t, -1)
            i == Input("del_title", t)
        IN IF found_movies = <<>>
           THEN Step("loop", o, r, <<>>, t, found_movies, i)
           ELSE IF Len(found_movies) = 1
           THEN Step("del_confirm", o, r,
                     <<Msg("Found one movie:", -1, -1)>> \o display_records(<<found_movies[1]>>),
                     t, found_movies, i)
           ELSE Step("del_year", o, r,
                     <<Msg("Found multiple movies with that title.", -1, -1)>>
                         \o display_records(found_movies),
                     t, found_movies, i)

\* DeleteChosen without the any(...) check against found_movies.
DeleteChosenUnchecked(year_to_delete, i) ==
    \E e \in DeleteEnvs :
        Step("loop", Op("delete_movie", year_to_delete, movie_title, -1),
             delete_movie(store, year_to_delete, movie_title, e.updFaults[1]),
             <<>>, movie_title, found, i)

\* DeleteChosen passing the title in lower case to delete_movie.
DeleteChosenLowered(year_to_delete, i) ==
    LET lowered == IF movie_title = "A" THEN "a" ELSE IF movie_title = "B" THEN "b" ELSE movie_title
    IN IF \E k \in DOMAIN found : found[k].year = year_to_delete
       THEN \E e \in DeleteEnvs :
               Step("loop", Op("delete_movie", year_to_delete, lowered, -1),
                    delete_movie(store, year_to_delete, lowered, e.updFaults[1]),
                    <<>>, movie_title, found, i)
       ELSE Step("loop", NoOp, Quiet(<<Msg("No movie with that title and year was found.", year_to_delete, -1)>>),
                 <<>>, movie_title, found, i)

\* The end of option 4, once year_to_delete is set.
DeleteChosen(year_to_delete, i) ==
    IF \E k \in DOMAIN found : found[k].year = year_to_delete
    THEN \E e \in DeleteEnvs :
            Step("loop", Op("delete_movie", year_to_delete, movie_title, -1),
                 delete_movie(store, year_to_delete, movie_title, e.updFaults[1]),
                 <<>>, movie_title, found, i)
    ELSE Step("loop", NoOp, Quiet(<<Msg("No movie with that title and year was found.", year_to_delete, -1)>>),
              <<>>, movie_title, found, i)

\* InputConfirm deleting whatever the answer is.
InputConfirmUnasked ==
    /\ pc = "del_confirm"
    /\ \E text \in ConfirmInputs :
        DeleteChosen(found[1].year, Input("del_confirm", text))

InputConfirm ==
    /\ pc = "del_confirm"
    /\ \E text \in ConfirmInputs :
        LET movie == found[1]
            confirm == Lower(text)
            i == Input("del_confirm", text)
        IN IF confirm = "y"
           THEN DeleteChosen(movie.year, i)
           ELSE Step("loop", NoOp, Quiet(<<>>), <<>>, movie_title, found, i)

InputYear ==
    /\ pc = "del_year"
    /\ \E text \in YearInputs :
        LET year_to_delete == ParseInt(text)
            i == Input("del_year", text)
        IN IF year_to_delete.ok
           THEN DeleteChosen(year_to_delete.val, i)
           ELSE Step("loop", NoOp, Quiet(<<Msg("Invalid year. Please enter a number.", -1, -1)>>),
                     <<>>, movie_title, found, i)

NextMain ==
    \/ Construct
    \/ LoopHead
    \/ MenuChoice
    \/ InputUpdateTitle
    \/ InputRating
    \/ InputFindTitle
    \/ InputDeleteTitle
    \/ InputConfirm
    \/ InputYear
    \/ ExternalDelete

SpecMain == InitMain /\ [][NextMain]_vars

(***************************************************************************)
(* Properties of the table client (Spec)                                   *)
(***************************************************************************)
Returned(name) == pc = "returned" /\ op.name = name

Walk == ScanOrder(store, env.reverse)

RECURSIVE PagesFrom(_, _, _)
PagesFrom(order, lens, p) ==
    IF p > Len(lens) THEN <<>> ELSE PageOf(order, lens, p) \o PagesFrom(order, lens, p + 1)

Range(s) == {s[i] : i \in DOMAIN s}
Says(o, m) == \E i \in DOMAIN o : o[i].m = m
Issued(c, api) == {i \in DOMAIN c : c[i].api = api}

\* C1: when the table serves the full scan in K pages (any cuts, empty pages
\* included) and no scan fails, get_all_records issues exactly K scan calls,
\* the first without a token and each later one with the LastEvaluatedKey
\* of the response before it, and returns the items of the K pages in
\* arrival order, none twice and none missing.
C1_ScanPagination ==
    (Returned("get_all_records") /\ env.scanFailAt = 0) =>
        /\ Len(calls) = Len(env.lens)
        /\ \A i \in DOMAIN calls : calls[i].api = "scan" /\ calls[i].filter = <<>>
        /\ calls[1].token = NoToken
        /\ \A i \in 2..Len(calls) :
              calls[i].token = StoreScan(Walk, env.lens, <<>>, calls[i-1].token).LastEvaluatedKey
        /\ ret = RetList(PagesFrom(Walk, env.lens, 1))
        /\ Range(ret.val) = store
        /\ Len(ret.val) = Cardinality(store)

C1_Witness ==
    /\ Returned("get_all_records")
    /\ env.scanFailAt = 0
    /\ Len(env.lens) = MaxPages
    /\ \E p \in DOMAIN env.lens : env.lens[p] = 0
    /\ Len(ret.val) >= 2

KeysIn(st) == {KeyOf(item) : item \in st}

\* C2: no step of the client or of another client adds a key to the table:
\* the keys after any call are among the keys before it; an
\* update_movie_rating on a key that is not in the table leaves it out.
C2_NeverCreates == [][KeysIn(store') \subseteq KeysIn(store)]_vars

C2_Witness ==
    /\ Returned("update_movie_rating")
    /\ env.updFaults[1] = NoExc
    /\ <<op.year, op.title>> \notin KeysIn(store)
    /\ store # {}

\* The error the table answered the update_movie_rating call with.
UpdateAnswer ==
    IF env.updFaults[1] # NoExc THEN env.updFaults[1]
    ELSE IF <<op.year, op.title>> \notin KeysIn(store) THEN env.absentCode
    ELSE NoExc

NotFoundText == "Error: A movie was not found."
GenericText == "An error occurred while updating"

\* C3 as claimed: a ConditionalCheckFailedException gives the not-found
\* outcome and never the generic one, any other ClientError the generic one
\* and never not-found, and the caller can tell the two apart: what it gets
\* back differs from what it gets back on a generic fault.
C3_Distinguishable ==
    (Returned("update_movie_rating") /\ IsClientError(UpdateAnswer)) =>
        IF UpdateAnswer = ConditionalCheckFailed
        THEN /\ Says(out, NotFoundText) /\ ~Says(out, GenericText)
             /\ ret # update_movie_rating(store, op.year, op.title, op.rating,
                                          Throttled, env.absentCode).ret
        ELSE Says(out, GenericText) /\ ~Says(out, NotFoundText)

\* C3 amended: the two failures differ in the message printed and in nothing
\* else: a ConditionalCheckFailedException prints not-found and not the
\* generic message, any other ClientError prints the generic message and
\* not not-found, and both return None with the table as it was.
C3_MessageOnly ==
    (Returned("update_movie_rating") /\ IsClientError(UpdateAnswer)) =>
        /\ ret = RetNone
        /\ exc = NoExc
        /\ IF UpdateAnswer = ConditionalCheckFailed
           THEN Says(out, NotFoundText) /\ ~Says(out, GenericText)
           ELSE Says(out, GenericText) /\ ~Says(out, NotFoundText)

C3_Witness ==
    /\ Returned("update_movie_rating")
    /\ UpdateAnswer = ConditionalCheckFailed
    /\ Says(out, NotFoundText)

\* The records the filtered scan of the last call returned, in arrival order
\* (an update changes no key, so the walk of the table after the call meets
\* the same keys as the walk before it).
Matched == SelectSeq(Walk, LAMBDA item : item.title = op.title)

UpdateCalls == SelectSeq(calls, LAMBDA c : c.api = "update_item")

\* The update_movie_rating_by_title call found records and ran its loop to
\* the end.
LoopRan ==
    /\ Returned("update_movie_rating_by_title")
    /\ env.scanFailAt = 0
    /\ exc = NoExc
    /\ Matched # <<>>

\* C4 as claimed: update_movie_rating_by_title issues one update per record
\* the filtered scan returned, with that record's own year, skipping none
\* whose year is present; when no update fails it returns N responses for
\* the N records.
C4_EveryMatchUpdated ==
    LoopRan =>
        /\ Len(UpdateCalls) = Len(Matched)
        /\ \A i \in DOMAIN UpdateCalls : UpdateCalls[i].key = <<Matched[i].year, op.title>>
        /\ (\A i \in DOMAIN Matched : env.updFaults[i] = NoExc) =>
              ret.kind = "list" /\ Len(ret.val) = Len(Matched)

NoMatchText == "No movie found. No updates performed."

\* C5: when the filtered scan succeeds and no record has the title,
\* update_movie_rating_by_title prints the not-found message, returns None,
\* issues no update_item call and leaves the table as it was.
C5_NoMatchNoWrite ==
    [][(/\ pc = "idle"
        /\ pc' = "returned"
        /\ op'.name = "update_movie_rating_by_title"
        /\ env'.scanFailAt = 0
        /\ Matching(store, op'.title) = {})
       => /\ store' = store
          /\ ret' = RetNone
          /\ exc' = NoExc
          /\ Says(out', NoMatchText)
          /\ Issued(calls', "update_item") = {}]_vars

C5_Witness ==
    /\ Returned("update_movie_rating_by_title")
    /\ env.scanFailAt = 0
    /\ Matched = <<>>
    /\ store # {}
    /\ Len(env.lens) = MaxPages
    /\ Says(out, NoMatchText)

\* The matched record an update_item call was for, and whether the table
\* accepted the update.
MatchOf(c) == CHOOSE i \in DOMAIN Matched : KeyOf(Matched[i]) = c.key
Accepted(c) == env.updFaults[MatchOf(c)] = NoExc
Failures == {i \in DOMAIN UpdateCalls : ~Accepted(UpdateCalls[i])}
Successes == {i \in DOMAIN UpdateCalls : Accepted(UpdateCalls[i])}
FailureReports == {i \in DOMAIN out : out[i].m \in {GenericText, NotFoundText}}

SearchErrorText == "An error occurred while searching"

\* C9 as claimed: find_movies_by_title returns exactly the records with the
\* title, over all pages, the empty list when there is none, and on a
\* service fault a failure signal that the caller can tell from "no match".
C9_FaultSignalled ==
    (Returned("find_movies_by_title") /\ exc = NoExc) =>
        IF env.scanFailAt = 0
        THEN ret = RetList(Matched) /\ Len(calls) = Len(env.lens)
        ELSE ret # RetList(<<>>)

\* C9 amended: without a fault find_movies_by_title returns exactly the
\* records with the title, over all pages, in arrival order, and the empty
\* list with no error message when there is none; on a service fault
\* (ClientError) it returns the empty list too, whatever the pages read so
\* far, and the fault shows only in the message printed.
C9_FindByTitle ==
    (Returned("find_movies_by_title") /\ exc = NoExc) =>
        IF env.scanFailAt = 0
        THEN /\ ret = RetList(Matched)
             /\ Len(calls) = Len(env.lens)
             /\ \A i \in DOMAIN calls : calls[i].filter = <<op.title>>
             /\ ~Says(out, SearchErrorText)
             /\ store = Range(Walk)
        ELSE ret = RetList(<<>>) /\ Says(out, SearchErrorText)

C9_Witness ==
    /\ Returned("find_movies_by_title")
    /\ exc = NoExc
    /\ env.scanFailAt = 2
    /\ env.lens[1] > 0
    /\ Matched # <<>>
    /\ ret = RetList(<<>>)

(***************************************************************************)
(* Properties of the controller (SpecMain)                                 *)
(***************************************************************************)
\* A step of main that answers the prompt p.
Answers(p) == pc = p /\ pc' # p

DeleteCalls(c) == SelectSeq(c, LAMBDA x : x.api = "delete_item")

\* C7 as claimed: with one match, a delete_item call is issued only on the
\* answer "y"; on any other answer the pass ends with no delete_item call
\* and the table as it was.
C7_OnlyOnY ==
    [][Answers("del_confirm") =>
          \/ inp'.text = "y"
          \/ /\ DeleteCalls(calls') = <<>>
             /\ store' = store
             /\ pc' = "loop"]_vars

\* C7 amended: with one match, a delete_item call is issued only on the
\* answer "y" or "Y" (the answer is lower-cased), and then it is the one
\* call for the matched record's year and the title entered; on any other
\* answer the pass ends with no delete_item call and the table as it was.
C7_OnlyOnYAnyCase ==
    [][Answers("del_confirm") =>
          IF inp'.text \in {"y", "Y"}
          THEN DeleteCalls(calls') = <<DeleteCall(<<found[1].year, movie_title>>)>>
          ELSE /\ DeleteCalls(calls') = <<>>
               /\ store' = store
               /\ pc' = "loop"]_vars

C7_Witness ==
    /\ pc = "loop"
    /\ inp.prompt = "del_confirm"
    /\ inp.text = "Y"
    /\ Len(found) = 1
    /\ DeleteCalls(calls) # <<>>
    /\ found[1] \notin store

NoSuchYearText == "No movie with that title and year was found."

\* C8: with several matches, a delete_item call is issued only when the
\* year entered parses to the year of a matched record, and it is then the
\* one call for that year and the title entered; a year that is none of the
\* matched years is reported and the pass ends with no delete_item call and
\* the table as it was.
C8_YearAmongMatches ==
    [][Answers("del_year") =>
          LET year == ParseInt(inp'.text)
              years == {found[k].year : k \in DOMAIN found}
          IN /\ DeleteCalls(calls') # <<>> =>
                    /\ year.ok
                    /\ year.val \in years
                    /\ DeleteCalls(calls') = <<DeleteCall(<<year.val, movie_title>>)>>
             /\ (year.ok /\ year.val \notin years) =>
                    /\ Says(out', NoSuchYearText)
                    /\ DeleteCalls(calls') = <<>>
                    /\ store' = store
                    /\ pc' = "loop"]_vars

C8_Witness ==
    /\ pc = "loop"
    /\ inp.prompt = "del_year"
    /\ ParseInt(inp.text).ok
    /\ Len(found) > 1
    /\ \A k \in DOMAIN found : found[k].year # ParseInt(inp.text).val
    /\ Says(out, NoSuchYearText)

InvalidRatingText == "Invalid rating. Please enter a number."
InvalidYearText == "Invalid year. Please enter a number."
InvalidChoiceText == "Invalid choice."

\* The rating prompt repeats on an invalid rating, and the update is called
\* only with the number a valid rating parses to.
RatingRepeats ==
    /\ (inp.prompt = "upd_rating" /\ ~ParseFloat(inp.text).ok) =>
           pc = "upd_rating" /\ Says(out, InvalidRatingText) /\ calls = <<>>
    /\ op.name = "update_movie_rating_by_title" =>
           /\ inp.prompt = "upd_rating"
           /\ ParseFloat(inp.text).ok
           /\ op.rating = ParseFloat(inp.text).val

ChoiceReturns ==
    (inp.prompt = "menu" /\ inp.text \notin {"1", "2", "3", "4", "5"}) =>
        pc = "loop" /\ Says(out, InvalidChoiceText)

\* C10 as claimed: an invalid rating and an invalid year are both reported
\* and asked for again in place; only an invalid menu choice goes back to
\* the menu.
C10_BothRepeat ==
    /\ RatingRepeats
    /\ ChoiceReturns
    /\ (inp.prompt = "del_year" /\ ~ParseInt(inp.text).ok) =>
           pc = "del_year" /\ Says(out, InvalidYearText)

\* C10 amended: an invalid rating is reported and asked for again in place
\* until a number is entered; an invalid year is reported and, like an
\* invalid menu choice, goes back to the menu, with no delete_item call.
C10_OnlyRatingRepeats ==
    /\ RatingRepeats
    /\ ChoiceReturns
    /\ (inp.prompt = "del_year" /\ ~ParseInt(inp.text).ok) =>
           pc = "loop" /\ Says(out, InvalidYearText) /\ DeleteCalls(calls) = <<>>

C10_Witness ==
    /\ inp.prompt = "del_year"
    /\ ~ParseInt(inp.text).ok
    /\ inp.text # <<>>
    /\ pc = "loop"

Options == {"1", "2", "3", "4", "5"}

\* The pass of the menu loop has ended: the next step prints the menu and
\* waits for the choice.
BackToMenu == [][pc = "loop" => pc' = "menu" /\ out' = <<MenuText>> /\ store' = store]_vars

\* An input that is no option is reported as an invalid choice, issues no
\* store call, changes nothing in the table and ends the pass.
InvalidChoiceStays ==
    [][(Answers("menu") /\ inp'.text \notin Options) =>
          /\ Says(out', InvalidChoiceText)
          /\ calls' = <<>>
          /\ store' = store
          /\ exc' = NoExc
          /\ pc' = "loop"]_vars

\* C11 as claimed: a step from the menu prompt to the end of the program is
\* the selection 5 and no other; any input other than 1..5 is reported as
\* an invalid choice, issues no store call and leaves the controller at the
\* menu, whose prompt is the next step.
C11_OnlyFiveExits ==
    /\ [][(Answers("menu") /\ pc' = "exit") => inp'.text = "5"]_vars
    /\ InvalidChoiceStays
    /\ BackToMenu

\* C11 amended: a step from the menu prompt to the end of the program is the
\* selection 5, or the selection 1 whose scan raised an exception that
\* get_all_records does not catch (it is caught at the top level); the
\* selections 2, 3 and 4 go to their first prompt; any input other than
\* 1..5 is reported as an invalid choice, issues no store call and leaves
\* the controller at the menu, whose prompt is the next step.
C11_FiveOrFaultExits ==
    /\ [][(Answers("menu") /\ pc' = "exit") =>
              \/ inp'.text = "5" /\ exc' = NoExc /\ calls' = <<>>
              \/ inp'.text = "1" /\ exc' # NoExc /\ ~IsClientError(exc')]_vars
    /\ [][(Answers("menu") /\ inp'.text \in {"2", "3", "4"}) =>
              pc' \in {"upd_title", "find_title", "del_title"} /\ calls' = <<>>]_vars
    /\ InvalidChoiceStays
    /\ BackToMenu

C11_Witness ==
    /\ pc = "loop"
    /\ inp = Input("menu", "6")
    /\ Says(out, InvalidChoiceText)
    /\ calls = <<>>
    /\ store # {}

CaughtText == "An error occurred in the main application"
FinishedText == "Application finished."

Count(o, m) == Cardinality({k \in DOMAIN o : o[k].m = m})

\* The program has ended the normal way: the last thing printed is the
\* line after the try statement.
Finished == pc = "exit" /\ out # <<>> /\ out[Len(out)].m = FinishedText

\* C12: an exception that the handler does not catch, raised by the
\* construction of the handler or by the handler call of any menu option,
\* is caught by the except clause of main, once; the program is then at its
\* end, with the caught-error line and the closing line printed, and takes
\* no further step, so it issues no further store call; it is never left
\* by a traceback.
C12_CaughtAtTopLevel ==
    /\ [](/\ pc \in Prompts \cup {"start", "loop", "exit"}
          /\ (exc # NoExc) = (ret = RetRaise)
          /\ exc # NoExc =>
                /\ ~IsClientError(exc)
                /\ Finished
                /\ Count(out, CaughtText) = 1
                /\ out[Len(out) - 1].m = CaughtText
          /\ pc = "exit" => Finished /\ Count(out, FinishedText) = 1
          /\ (pc = "exit" /\ exc = NoExc) => inp = Input("menu", "5") /\ Count(out, CaughtText) = 0)
    /\ [][pc # "exit" /\ exc = NoExc]_vars

\* The first update_item call of an update by title over two records met a
\* connection failure: the second record's update was never issued.
C12_Witness ==
    /\ pc = "exit"
    /\ exc = EndpointConnectionError
    /\ op.name = "update_movie_rating_by_title"
    /\ Len(UpdateCalls) = 1
    /\ Cardinality({item \in Matching(store, op.title) : Truthy(item.year)}) = 2
    /\ Count(out, CaughtText) = 1

(***************************************************************************)
(* Properties of the table client (Spec), continued                        *)
(***************************************************************************)
\* A step that calls the handler method name and returns from it.
Calls(name) == pc = "idle" /\ pc' = "returned" /\ op'.name = name

DeletedText == "Deletion successful."
NothingToDeleteText == "Movie not found. Nothing to delete."
DeleteErrorText == "An error occurred while deleting"

\* C13: when the table answers the delete_item call, delete_movie(year,
\* title) on a key of the table removes the record at that key and no
\* other, and returns the response holding the removed record's content;
\* on a key that is not in the table it prints the not-found message and
\* no error message, returns the response (not None) without content, and
\* leaves the table as it was.  It issues the one delete_item call for
\* that key.
C13_DeleteByKey ==
    [][(Calls("delete_movie") /\ env'.updFaults[1] = NoExc) =>
          LET key == <<op'.year, op'.title>>
          IN /\ calls' = <<DeleteCall(key)>>
             /\ exc' = NoExc
             /\ ~Says(out', DeleteErrorText)
             /\ IF Present(store, key)
                THEN /\ store' = store \ {ItemAt(store, key)}
                     /\ ret' = RetResponse(<<ItemAt(store, key)>>)
                     /\ Says(out', DeletedText)
                     /\ ~Says(out', NothingToDeleteText)
                ELSE /\ store' = store
                     /\ ret' = RetResponse(<<>>)
                     /\ Says(out', NothingToDeleteText)
                     /\ ~Says(out', DeletedText)]_vars

\* A delete_movie on a key that is not in a table of several records.
C13_Witness ==
    /\ Returned("delete_movie")
    /\ env.updFaults[1] = NoExc
    /\ ret = RetResponse(<<>>)
    /\ Says(out, NothingToDeleteText)
    /\ Cardinality(store) >= 2
    /\ \E item \in store : item.title = op.title /\ item.year # op.year

UpdatedText == "Update successful."

\* The same update_movie_rating call made again on the table as the last
\* call left it, the table answering it.
Again == update_movie_rating(store, op.year, op.title, op.rating, NoExc, env.absentCode)

\* C14: after update_movie_rating(year, title, r) on a key of the table,
\* answered by the table, the record holds the rating r and the call
\* reported success; the same call made again leaves the table exactly as
\* the first call left it (the same stored rating, every record as it was),
\* returns what the first call returned and reports no error either.
C14_UpdateIdempotent ==
    (Returned("update_movie_rating") /\ UpdateAnswer = NoExc) =>
        LET key == <<op.year, op.title>>
            value == DecimalOfFloat(op.rating)
        IN /\ Present(store, key)
           /\ ItemAt(store, key).info.rating = value
           /\ ret = RetResponse(<<[rating |-> value]>>)
           /\ exc = NoExc
           /\ Says(out, UpdatedText) /\ ~Says(out, NotFoundText) /\ ~Says(out, GenericText)
           /\ Again.store = store
           /\ Again.ret = ret
           /\ Again.out = out
           /\ Again.exc = NoExc

\* An update that set a rating another record does not hold, repeated.
C14_Witness ==
    /\ Returned("update_movie_rating")
    /\ UpdateAnswer = NoExc
    /\ ItemAt(store, <<op.year, op.title>>).info.rating = DecimalOfFloat(op.rating)
    /\ \E item \in store : item.info.rating # DecimalOfFloat(op.rating)
    /\ Again.store = store
    /\ Again.ret.kind = "response"

(***************************************************************************)
(* Properties of the controller (SpecMain), continued                      *)
(***************************************************************************)
ScanErrorText == "An error occurred"
DisplayingText == "--- Displaying DynamoDB Records ---"
NothingToDisplayText == "No records to display."

\* The step of main that takes option 1.
FetchAll == Answers("menu") /\ inp'.text = "1"

\* The ways the table may answer a scan with a ClientError at some page.
ClientFaultEnvs(S) == {e \in ScanEnvs(S) : IsClientError(e.scanFailKind)}

FoundKeys == {KeyOf(found[k]) : k \in DOMAIN found}

\* C16: in every pass of the menu loop the controller issues at most one
\* delete_item call, and its key is the (year, title) of a record that the
\* find of the same pass returned, the title being the title entered; a
\* step of the controller removes at most one record, and that record is
\* one the find returned, so its title is the title entered.
C16_DeleteKeyWasFound ==
    /\ [](/\ Len(DeleteCalls(calls)) <= 1
          /\ \A k \in DOMAIN DeleteCalls(calls) :
                /\ DeleteCalls(calls)[k].key \in FoundKeys
                /\ DeleteCalls(calls)[k].key[2] = movie_title
                /\ inp.prompt \in {"del_confirm", "del_year"})
    /\ [][pc' # pc =>
            LET removed == KeysIn(store) \ KeysIn(store')
            IN /\ KeysIn(store') \subseteq KeysIn(store)
               /\ Cardinality(removed) <= 1
               /\ \A key \in removed :
                     /\ key \in FoundKeys
                     /\ key[2] = movie_title
                     /\ calls' = Append(calls, DeleteCall(key))]_vars

\* Of several records of the title entered, the one of the year entered
\* was deleted and the others are still in the table.
C16_Witness ==
    /\ pc = "loop"
    /\ inp.prompt = "del_year"
    /\ Len(found) >= 2
    /\ Len(DeleteCalls(calls)) = 1
    /\ DeleteCalls(calls)[1].key \in FoundKeys
    /\ DeleteCalls(calls)[1].key \notin KeysIn(store)
    /\ Cardinality(FoundKeys \cap KeysIn(store)) = Len(found) - 1

(***************************************************************************)
(* Frame of the update by title (Spec)                                     *)
(***************************************************************************)
\* C17: whatever the table answers, update_movie_rating_by_title(title,
\* rating) adds and removes no record, leaves every record of another title
\* exactly as it was, and changes in a record of the title nothing but
\* info.rating, which is then the old rating or the rating given: year,
\* title and the rest of info are as they were.  Every update_item call it
\* issues is for a key with that title.
C17_OnlyRatingOfTitle ==
    [][Calls("update_movie_rating_by_title") =>
          /\ KeysIn(store') = KeysIn(store)
          /\ \A item \in store :
                LET new == ItemAt(store', KeyOf(item))
                IN /\ new = [item EXCEPT !.info.rating = new.info.rating]
                   /\ new.info.rating \in {item.info.rating, DecimalOfFloat(op'.rating)}
                   /\ item.title # op'.title => new = item
          /\ \A k \in DOMAIN calls' :
                \/ calls'[k].api = "scan"
                \/ /\ calls'[k].api = "update_item"
                   /\ calls'[k].key[2] = op'.title
                   /\ calls'[k].value = <<DecimalOfFloat(op'.rating)>>]_vars

\* A record of the title holds the new rating, next to a record of another
\* title that holds another rating.
C17_Witness ==
    /\ Returned("update_movie_rating_by_title")
    /\ ret.kind = "list"
    /\ \E item \in store :
          /\ item.title = op.title
          /\ item.info = [rating |-> DecimalOfFloat(op.rating), plot |-> "p"]
    /\ \E item \in store :
          /\ item.title # op.title
          /\ item.info.rating # DecimalOfFloat(op.rating)

OnlyScans(c) == \A k \in DOMAIN c : c[k].api = "scan"

\* The steps of main that read: option 1, the find of option 3 and the find
\* of option 4.
ReadStep == FetchAll \/ Answers("find_title") \/ Answers("del_title")

\* A pass of the menu loop that has ended after a read alone: option 1,
\* option 3, or option 4 whose find returned no record.
ReadPass ==
    /\ pc \in {"loop", "exit"}
    /\ \/ inp = Input("menu", "1")
       \/ inp.prompt = "find_title"
       \/ inp.prompt = "del_title"

\* C18: option 1, the find of option 3 and the find of option 4 leave the
\* table exactly as it was and issue scan calls only; the find of option 4
\* that returns no record ends the pass there, so a pass of option 1, of
\* option 3 or of option 4 without a match has issued scan calls only, at
\* least one, and the table is unchanged after any sequence of them.
C18_ReadOnly ==
    /\ [][ReadStep =>
            /\ store' = store
            /\ calls' # <<>>
            /\ OnlyScans(calls')
            /\ (Answers("del_title") /\ found' = <<>>) => pc' \in {"loop", "exit"}
            /\ (Answers("del_title") /\ found' # <<>>) => pc' \in {"del_confirm", "del_year"}]_vars
    /\ [](ReadPass =>
            /\ calls # <<>>
            /\ OnlyScans(calls)
            /\ inp.prompt = "del_title" => found = <<>>)

\* Option 4 for a title that no record of the table has, the filtered scan
\* served in two pages.
C18_Witness ==
    /\ pc = "loop"
    /\ inp.prompt = "del_title"
    /\ exc = NoExc
    /\ found = <<>>
    /\ Len(calls) = 2
    /\ OnlyScans(calls)
    /\ Says(out, "No movie found.")
    /\ Cardinality(store) >= 2

====
